---- MODULE Spec2Model ----
(***************************************************************************)
(* Model of bme280/environment_calculations.py: the unit conversions and   *)
(* the four environmental formulas (altitude, absolute_humidity,           *)
(* equivalent_sea_level_pressure, dew_point).                              *)
(*                                                                         *)
(* Python floats are modelled as decimal floating-point numbers            *)
(*     [m |-> mantissa, e |-> exponent]   standing for   m * 10^e          *)
(* with an 8-digit mantissa (10^7 <= |m| < 10^8, or m = 0 and e = 0), the  *)
(* widest that keeps every intermediate product inside TLC's 32-bit        *)
(* integers.  Every arithmetic operation rounds to the nearest             *)
(* representable number, as IEEE-754 arithmetic does with 53 bits.         *)
(***************************************************************************)
EXTENDS Integers, Sequences, FiniteSets, TLC

VARIABLES
    constants,  \* the attributes of class Constants
    inputs,     \* the numbers the callers pass, drawn when the run starts
    calls       \* per caller: its most recent call, arguments and outcome

vars == <<constants, inputs, calls>>

(***************************************************************************)
(* Decimal floating point.                                                 *)
(***************************************************************************)
MantMin == 10^7
MantMax == 10^8
Limb == 10^4

Abs(n) == IF n < 0 THEN -n ELSE n
Sgn(n) == IF n < 0 THEN -1 ELSE IF n > 0 THEN 1 ELSE 0

Zero == [m |-> 0, e |-> 0]

RECURSIVE NumDigits(_)
NumDigits(a) == IF a < 10 THEN 1 ELSE 1 + NumDigits(a \div 10)

RECURSIVE Norm(_, _)
\* the float nearest to m * 10^e
Norm(m, e) ==
    IF m = 0 THEN Zero
    ELSE LET a == Abs(m)
             d == NumDigits(a)
         IN  IF d < 8 THEN [m |-> m * 10^(8 - d), e |-> e - (8 - d)]
             ELSE IF d = 8 THEN [m |-> m, e |-> e]
             ELSE LET k == d - 8
                      r == (a + (10^k) \div 2) \div (10^k)
                  IN  Norm(Sgn(m) * r, e + k)

\* the literal m * 10^e
F(m, e) == Norm(m, e)
FromInt(n) == Norm(n, 0)
One == [m |-> 10000000, e |-> -7]

Neg(x) == [m |-> -x.m, e |-> x.e]
FAbs(x) == [m |-> Abs(x.m), e |-> x.e]

\* a / b rounded to the nearest integer, away from zero on a tie (b > 0)
RoundDiv(a, b) == Sgn(a) * ((Abs(a) + b \div 2) \div b)

AddAligned(x, y) ==
    \* x.e >= y.e, both nonzero; one guard digit
    LET d == x.e - y.e
    IN  IF d > 9 THEN x
        ELSE Norm(x.m * 10 + RoundDiv(y.m * 10, 10^d), x.e - 1)

Add(x, y) ==
    IF x.m = 0 THEN y
    ELSE IF y.m = 0 THEN x
    ELSE IF x.e >= y.e THEN AddAligned(x, y) ELSE AddAligned(y, x)

Sub(x, y) == Add(x, Neg(y))

Mul(x, y) ==
    IF x.m = 0 \/ y.m = 0 THEN Zero
    ELSE LET a == Abs(x.m)
             b == Abs(y.m)
             ah == a \div Limb
             al == a % Limb
             bh == b \div Limb
             bl == b % Limb
             mid == ah * bl + al * bh
             low == al * bl
             q == (ah * bh) * 10 + (mid + low \div Limb) \div 1000
         IN  Norm(Sgn(x.m) * Sgn(y.m) * q, x.e + y.e + 7)

RECURSIVE LongDiv(_, _, _, _)
\* n more quotient digits of r / b appended to q, the last one rounded
LongDiv(r, b, q, n) ==
    IF n = 0 THEN q + (IF 2 * r >= b THEN 1 ELSE 0)
    ELSE LongDiv((r * 10) % b, b, q * 10 + (r * 10) \div b, n - 1)

\* x / y for y # 0
Quot(x, y) ==
    IF x.m = 0 THEN Zero
    ELSE LET a == Abs(x.m)
             b == Abs(y.m)
         IN  Norm(Sgn(x.m) * Sgn(y.m) * LongDiv(a % b, b, a \div b, 8),
                  x.e - y.e - 8)

Lt(x, y) == Sub(x, y).m < 0
Le(x, y) == Sub(x, y).m <= 0
IsNeg(x) == x.m < 0

\* the integer part of x (truncated toward zero); |x| < 2 * 10^9
Trunc(x) ==
    IF x.e >= 0 THEN x.m * 10^(x.e)
    ELSE IF x.e < -8 THEN 0
    ELSE Sgn(x.m) * (Abs(x.m) \div 10^(-x.e))

\* the integer nearest to x
Round(x) == Trunc(Add(x, IF x.m < 0 THEN F(-5, -1) ELSE F(5, -1)))

IsIntegral(x) == x.e >= 0 \/ (x.e >= -7 /\ Abs(x.m) % 10^(-x.e) = 0)

(***************************************************************************)
(* Elementary functions of the C library reached through pow and math.log, *)
(* computed by argument reduction and a truncated series (Horner's rule,   *)
(* from the last term up).                                                 *)
(***************************************************************************)
LnTerms == 8
ExpTerms == 16
TrigTerms == 14

Two == [m |-> 20000000, e |-> -7]
LN2 == [m |-> 69314718, e |-> -8]
LN10 == [m |-> 23025851, e |-> -7]
PI == [m |-> 31415927, e |-> -7]
TwoPI == [m |-> 62831853, e |-> -7]

\* y, once x has been evaluated: TLC evaluates an argument only where it is
\* first used, and the series below would otherwise nest to their full depth
After(x, y) == IF x.m = x.m THEN y ELSE y

RECURSIVE Halve(_, _)
\* <<v / 2^k, k>> with v / 2^k < 1.5
Halve(v, k) ==
    IF Lt(v, [m |-> 15000000, e |-> -7]) THEN <<v, k>>
    ELSE Halve(Quot(v, Two), k + 1)

RECURSIVE AtanhPoly(_, _, _)
\* acc is the sum over j >= i of z2^(j-i) / (2j+1), for the terms j < LnTerms
AtanhPoly(z2, acc, i) ==
    IF i = 0 THEN acc
    ELSE After(acc, AtanhPoly(z2, Add(Quot(One, FromInt(2 * i - 1)), Mul(z2, acc)),
                              i - 1))

\* atanh(z) for small z
Atanh(z) == Mul(z, AtanhPoly(Mul(z, z), Zero, LnTerms))

\* ln(h[1] * 2^h[2] * 10^dec) for h[1] in [0.75, 1.5)
LnParts(h, dec) ==
    Add(Add(Mul(Two, Atanh(Quot(Sub(h[1], One), Add(h[1], One)))),
            Mul(FromInt(h[2]), LN2)),
        Mul(FromInt(dec), LN10))

\* natural logarithm of x > 0
Ln(x) == LnParts(Halve([m |-> x.m, e |-> -7], 0), x.e + 7)

RECURSIVE ExpPoly(_, _, _)
\* acc is 1 + r/(i+1) * (1 + r/(i+2) * (...)), up to r^ExpTerms / ExpTerms!
ExpPoly(r, acc, i) ==
    IF i = 0 THEN acc
    ELSE After(acc, ExpPoly(r, Add(One, Mul(Quot(r, FromInt(i)), acc)), i - 1))

\* e^x for x = r + k * ln 10
ExpParts(x, k) ==
    [m |-> ExpPoly(Sub(x, Mul(FromInt(k), LN10)), One, ExpTerms).m,
     e |-> ExpPoly(Sub(x, Mul(FromInt(k), LN10)), One, ExpTerms).e + k]

\* e^x
Exp(x) == ExpParts(x, Round(Quot(x, LN10)))

RECURSIVE CosPoly(_, _, _)
CosPoly(r2, acc, i) ==
    IF i = 0 THEN acc
    ELSE After(acc, CosPoly(r2, Sub(One, Mul(Quot(r2, FromInt((2 * i - 1) * (2 * i))),
                                             acc)),
                            i - 1))

RECURSIVE SinPoly(_, _, _)
SinPoly(r2, acc, i) ==
    IF i = 0 THEN acc
    ELSE After(acc, SinPoly(r2, Sub(One, Mul(Quot(r2, FromInt((2 * i) * (2 * i + 1))),
                                             acc)),
                            i - 1))

\* the angle x reduced to [-pi, pi]
ReduceAngle(x) == Sub(x, Mul(FromInt(Round(Quot(x, TwoPI))), TwoPI))

CosReduced(r) == CosPoly(Mul(r, r), One, TrigTerms)
SinReduced(r) == Mul(r, SinPoly(Mul(r, r), One, TrigTerms))

Cos(x) == CosReduced(ReduceAngle(x))
Sin(x) == SinReduced(ReduceAngle(x))

\* x^y for x > 0
RealPow(x, y) == Exp(Mul(y, Ln(x)))

(***************************************************************************)
(* Python values and operators.  An expression evaluates to a float, to a  *)
(* complex number, or raises; an operand that raised ends the evaluation   *)
(* (the left operand is evaluated first).  Overflow to infinity is outside *)
(* the magnitudes the model draws and is not represented.                  *)
(***************************************************************************)
Ret(x) == [kind |-> "float", re |-> x, im |-> Zero, exc |-> "none"]
Cplx(x, y) == [kind |-> "complex", re |-> x, im |-> y, exc |-> "none"]
Raise(exc) == [kind |-> "raised", re |-> Zero, im |-> Zero, exc |-> exc]

\* the float literal m * 10^e
Fl(m, e) == Ret(F(m, e))

Raised(a) == a.kind = "raised"
BothFloat(a, b) == a.kind = "float" /\ b.kind = "float"

PyAdd(a, b) ==
    IF Raised(a) THEN a ELSE IF Raised(b) THEN b
    ELSE IF BothFloat(a, b) THEN Ret(Add(a.re, b.re))
    ELSE Cplx(Add(a.re, b.re), Add(a.im, b.im))

PySub(a, b) ==
    IF Raised(a) THEN a ELSE IF Raised(b) THEN b
    ELSE IF BothFloat(a, b) THEN Ret(Sub(a.re, b.re))
    ELSE Cplx(Sub(a.re, b.re), Sub(a.im, b.im))

PyMul(a, b) ==
    IF Raised(a) THEN a ELSE IF Raised(b) THEN b
    ELSE IF BothFloat(a, b) THEN Ret(Mul(a.re, b.re))
    ELSE Cplx(Sub(Mul(a.re, b.re), Mul(a.im, b.im)),
              Add(Mul(a.re, b.im), Mul(a.im, b.re)))

\* (a.re + a.im i) / (b.re + b.im i) given ratio = b.im / b.re, |b.im| <= |b.re|
QuotByRe(a, b, ratio) ==
    Cplx(Quot(Add(a.re, Mul(a.im, ratio)), Add(b.re, Mul(b.im, ratio))),
         Quot(Sub(a.im, Mul(a.re, ratio)), Add(b.re, Mul(b.im, ratio))))

\* the same given ratio = b.re / b.im, |b.re| < |b.im|
QuotByIm(a, b, ratio) ==
    Cplx(Quot(Add(Mul(a.re, ratio), a.im), Add(Mul(b.re, ratio), b.im)),
         Quot(Sub(Mul(a.im, ratio), a.re), Add(Mul(b.re, ratio), b.im)))

\* complex division as CPython's _Py_c_quot does it
ComplexQuot(a, b) ==
    IF b.re.m = 0 /\ b.im.m = 0 THEN Raise("ZeroDivisionError")
    ELSE IF Le(FAbs(b.im), FAbs(b.re)) THEN QuotByRe(a, b, Quot(b.im, b.re))
    ELSE QuotByIm(a, b, Quot(b.re, b.im))

PyDiv(a, b) ==
    IF Raised(a) THEN a ELSE IF Raised(b) THEN b
    ELSE IF BothFloat(a, b)
    THEN IF b.re.m = 0 THEN Raise("ZeroDivisionError") ELSE Ret(Quot(a.re, b.re))
    ELSE ComplexQuot(a, b)

\* x^y for x # 0, y # 0, given len = |x|^y: a negative base with a
\* non-integral exponent gives the complex power in polar form
SignedPow(x, y, len) ==
    IF x.m > 0 THEN Ret(len)
    ELSE IF IsIntegral(y)
    THEN IF Trunc(y) % 2 = 1 THEN Ret(Neg(len)) ELSE Ret(len)
    ELSE Cplx(Mul(len, Cos(Mul(PI, y))), Mul(len, Sin(Mul(PI, y))))

\* pow(a, b) and a ** b on floats (float_pow)
PyPow(a, b) ==
    IF Raised(a) THEN a ELSE IF Raised(b) THEN b
    ELSE IF b.re.m = 0 THEN Ret(One)
    ELSE IF a.re.m = 0
    THEN IF b.re.m < 0 THEN Raise("ZeroDivisionError") ELSE Ret(Zero)
    ELSE SignedPow(a.re, b.re, RealPow(FAbs(a.re), b.re))

\* math.log(a)
MathLog(a) ==
    IF Raised(a) THEN a
    ELSE IF a.kind = "complex" THEN Raise("TypeError")
    ELSE IF a.re.m <= 0 THEN Raise("ValueError")
    ELSE Ret(Ln(a.re))

(***************************************************************************)
(* The unit enumerations and the constants of the module.                  *)
(***************************************************************************)
METERS == 1
FEET == 2
MBAR == 1
MMHG == 2
CELSIUS == 1
FARENHEIT == 2

AltitudeUnit == {METERS, FEET}
PressureUnit == {MBAR, MMHG}
TemperatureUnit == {CELSIUS, FARENHEIT}

\* class Constants; EULERS_NUMBER and UNIVERSAL_GAS_CONSTANT are rounded to
\* the 8 digits of the model's floats
Constants ==
    [ADIABATIC_RELATIONSHIP |-> Fl(5255, -3),
     EULERS_NUMBER          |-> Fl(27182818, -7),
     MOLAR_MASS_H20         |-> Fl(1801534, -5),
     TEMPERATURE_LAPSE_RATE |-> Fl(65, -4),
     UNIVERSAL_GAS_CONSTANT |-> Fl(83144722, -7)]

(***************************************************************************)
(* class Conversions.                                                      *)
(***************************************************************************)
celsius_to_farenheit(temperature) ==
    PyAdd(PyMul(temperature, PyDiv(Fl(9, 0), Fl(5, 0))), Fl(32, 0))

celsius_to_kelvin(temperature) == PyAdd(temperature, Fl(27315, -2))

farenheit_to_celsius(temperature) ==
    PySub(PyMul(temperature, PyDiv(Fl(5, 0), Fl(9, 0))), Fl(32, 0))

feet_to_meters(altitude_ft) == PyDiv(altitude_ft, Fl(328084, -5))

mmhg_to_mbar(pressure) == PyMul(pressure, Fl(133322, -5))

meters_to_feet(altitude_m) == PyMul(altitude_m, Fl(328084, -5))

(***************************************************************************)
(* The four formulas.  K is the Constants class as the call reads it; the  *)
(* operators named after a function's local variable take the normalised   *)
(* arguments and compute the assignment to it.                             *)
(***************************************************************************)
\* local_altitude with the quotient of the pressures inverted
local_altitude_inverted(K, pressure, reference_pressure, temperature) ==
    PyMul(PySub(PyPow(PyDiv(pressure, reference_pressure),
                      PyDiv(Fl(1, 0), K.ADIABATIC_RELATIONSHIP)),
                Fl(1, 0)),
          PyDiv(celsius_to_kelvin(temperature), K.TEMPERATURE_LAPSE_RATE))

\* lines 126-127, temperature in Celsius and pressure in mbar
local_altitude(K, pressure, reference_pressure, temperature) ==
    PyMul(PySub(PyPow(PyDiv(reference_pressure, pressure),
                      PyDiv(Fl(1, 0), K.ADIABATIC_RELATIONSHIP)),
                Fl(1, 0)),
          PyDiv(celsius_to_kelvin(temperature), K.TEMPERATURE_LAPSE_RATE))

\* lines 128-130
in_altitude_unit(meters, altitude_unit) ==
    IF altitude_unit = FEET THEN meters_to_feet(meters) ELSE meters

\* altitude without the conversion of a pressure given in mmHg
altitude_ignoring_mmhg(K, pressure, reference_pressure, pressure_unit, temperature, temperature_unit, altitude_unit) ==
    in_altitude_unit(
        local_altitude(K, pressure, reference_pressure,
            IF temperature_unit = FARENHEIT
            THEN farenheit_to_celsius(temperature) ELSE temperature),
        altitude_unit)

altitude(K, pressure, reference_pressure, pressure_unit, temperature, temperature_unit, altitude_unit) ==
    in_altitude_unit(
        local_altitude(K,
            IF pressure_unit = MMHG THEN mmhg_to_mbar(pressure) ELSE pressure,
            reference_pressure,
            IF temperature_unit = FARENHEIT
            THEN farenheit_to_celsius(temperature) ELSE temperature),
        altitude_unit)

\* lines 148-154, temperature in Celsius
absolute_humidity_celsius(K, temperature) ==
    PyDiv(PyMul(PyMul(Fl(61121, -4),
                      PyPow(K.EULERS_NUMBER,
                            PyMul(PyDiv(PyMul(Fl(17502, -3), temperature),
                                        celsius_to_kelvin(temperature)),
                                  K.UNIVERSAL_GAS_CONSTANT))),
                K.MOLAR_MASS_H20),
          PyMul(celsius_to_kelvin(temperature), K.UNIVERSAL_GAS_CONSTANT))

\* absolute_humidity scaled by the relative humidity in percent
absolute_humidity_scaled(K, temperature, temperature_unit, relative_humidity) ==
    PyMul(PyDiv(relative_humidity, Fl(100, 0)),
          absolute_humidity_celsius(K,
              IF temperature_unit = FARENHEIT
              THEN farenheit_to_celsius(temperature) ELSE temperature))

absolute_humidity(K, temperature, temperature_unit, relative_humidity) ==
    absolute_humidity_celsius(K,
        IF temperature_unit = FARENHEIT
        THEN farenheit_to_celsius(temperature) ELSE temperature)

\* sea_level_pressure with the lapse left out of the denominator
sea_level_pressure_station_kelvin(K, temperature_lapse, temperature, pressure) ==
    PyDiv(pressure,
          PyPow(PySub(Fl(1, 0),
                      PyDiv(temperature_lapse, celsius_to_kelvin(temperature))),
                K.ADIABATIC_RELATIONSHIP))

\* line 165, given temperature_lapse of line 164 and temperature in Celsius
sea_level_pressure(K, temperature_lapse, temperature, pressure) ==
    PyDiv(pressure,
          PyPow(PySub(Fl(1, 0),
                      PyDiv(temperature_lapse,
                            PyAdd(celsius_to_kelvin(temperature),
                                  temperature_lapse))),
                K.ADIABATIC_RELATIONSHIP))

equivalent_sea_level_pressure(K, altitude_in, altitude_unit, temperature, temperature_unit, pressure) ==
    sea_level_pressure(K,
        PyMul(K.TEMPERATURE_LAPSE_RATE,
              IF altitude_unit = FEET THEN feet_to_meters(altitude_in)
              ELSE altitude_in),
        IF temperature_unit = FARENHEIT
        THEN farenheit_to_celsius(temperature) ELSE temperature,
        pressure)

\* dew_point_celsius with the logarithm subtracted in the numerator
dew_point_celsius_log_subtracted(temperature, relative_humidity) ==
    PyDiv(PyMul(Fl(24304, -2),
                PySub(PyDiv(PyMul(Fl(17625, -3), temperature),
                            PyAdd(Fl(24304, -2), temperature)),
                      MathLog(PyDiv(relative_humidity, Fl(100, 0))))),
          PySub(PySub(Fl(17625, -3),
                      MathLog(PyDiv(relative_humidity, Fl(100, 0)))),
                PyDiv(PyMul(Fl(17625, -3), temperature),
                      PyAdd(Fl(24304, -2), temperature))))

\* dew_point_celsius with 234.04 for the leading 243.04
dew_point_celsius_234(temperature, relative_humidity) ==
    PyDiv(PyMul(Fl(23404, -2),
                PyAdd(MathLog(PyDiv(relative_humidity, Fl(100, 0))),
                      PyDiv(PyMul(Fl(17625, -3), temperature),
                            PyAdd(Fl(24304, -2), temperature)))),
          PySub(PySub(Fl(17625, -3),
                      MathLog(PyDiv(relative_humidity, Fl(100, 0)))),
                PyDiv(PyMul(Fl(17625, -3), temperature),
                      PyAdd(Fl(24304, -2), temperature))))

\* dew_point_celsius with the quotient evaluated before the logarithm
dew_point_celsius_quotient_first(temperature, relative_humidity) ==
    PyDiv(PyMul(Fl(24304, -2),
                PyAdd(PyDiv(PyMul(Fl(17625, -3), temperature),
                            PyAdd(Fl(24304, -2), temperature)),
                      MathLog(PyDiv(relative_humidity, Fl(100, 0))))),
          PySub(PySub(Fl(17625, -3),
                      MathLog(PyDiv(relative_humidity, Fl(100, 0)))),
                PyDiv(PyMul(Fl(17625, -3), temperature),
                      PyAdd(Fl(24304, -2), temperature))))

\* lines 172-173, temperature in Celsius
dew_point_celsius(temperature, relative_humidity) ==
    PyDiv(PyMul(Fl(24304, -2),
                PyAdd(MathLog(PyDiv(relative_humidity, Fl(100, 0))),
                      PyDiv(PyMul(Fl(17625, -3), temperature),
                            PyAdd(Fl(24304, -2), temperature)))),
          PySub(PySub(Fl(17625, -3),
                      MathLog(PyDiv(relative_humidity, Fl(100, 0)))),
                PyDiv(PyMul(Fl(17625, -3), temperature),
                      PyAdd(Fl(24304, -2), temperature))))

\* lines 174-176
in_temperature_unit(celsius, temperature_unit) ==
    IF temperature_unit = FARENHEIT THEN celsius_to_farenheit(celsius)
    ELSE celsius

dew_point(temperature, temperature_unit, relative_humidity) ==
    in_temperature_unit(
        dew_point_celsius(
            IF temperature_unit = FARENHEIT
            THEN farenheit_to_celsius(temperature) ELSE temperature,
            relative_humidity),
        temperature_unit)

(***************************************************************************)
(* Calls.  Every function runs on its own arguments and locals; a call is  *)
(* one step that reads Constants and leaves its outcome with the caller.   *)
(***************************************************************************)
NumCallers == 2
Callers == 1..NumCallers

NoCall == [fn |-> "none", args |-> [none |-> 0], out |-> Ret(Zero)]

Record(c, fn, args, out) ==
    calls' = [calls EXCEPT ![c] = [fn |-> fn, args |-> args, out |-> out]]

Call_celsius_to_farenheit(c, temperature) ==
    /\ Record(c, "celsius_to_farenheit", [temperature |-> temperature],
              celsius_to_farenheit(temperature))
    /\ UNCHANGED <<constants, inputs>>

Call_celsius_to_kelvin(c, temperature) ==
    /\ Record(c, "celsius_to_kelvin", [temperature |-> temperature],
              celsius_to_kelvin(temperature))
    /\ UNCHANGED <<constants, inputs>>

Call_farenheit_to_celsius(c, temperature) ==
    /\ Record(c, "farenheit_to_celsius", [temperature |-> temperature],
              farenheit_to_celsius(temperature))
    /\ UNCHANGED <<constants, inputs>>

Call_feet_to_meters(c, altitude_ft) ==
    /\ Record(c, "feet_to_meters", [altitude |-> altitude_ft],
              feet_to_meters(altitude_ft))
    /\ UNCHANGED <<constants, inputs>>

Call_mmhg_to_mbar(c, pressure) ==
    /\ Record(c, "mmhg_to_mbar", [pressure |-> pressure], mmhg_to_mbar(pressure))
    /\ UNCHANGED <<constants, inputs>>

Call_meters_to_feet(c, altitude_m) ==
    /\ Record(c, "meters_to_feet", [altitude |-> altitude_m],
              meters_to_feet(altitude_m))
    /\ UNCHANGED <<constants, inputs>>

Call_altitude(c, pressure, reference_pressure, pressure_unit, temperature, temperature_unit, altitude_unit) ==
    /\ Record(c, "altitude",
              [pressure |-> pressure, reference_pressure |-> reference_pressure,
               pressure_unit |-> pressure_unit, temperature |-> temperature,
               temperature_unit |-> temperature_unit,
               altitude_unit |-> altitude_unit],
              altitude(constants, pressure, reference_pressure, pressure_unit,
                       temperature, temperature_unit, altitude_unit))
    /\ UNCHANGED <<constants, inputs>>

Call_absolute_humidity(c, temperature, temperature_unit, relative_humidity) ==
    /\ Record(c, "absolute_humidity",
              [temperature |-> temperature, temperature_unit |-> temperature_unit,
               relative_humidity |-> relative_humidity],
              absolute_humidity(constants, temperature, temperature_unit,
                                relative_humidity))
    /\ UNCHANGED <<constants, inputs>>

\* equivalent_sea_level_pressure keeping its lapse in the shared constant
Call_equivalent_sea_level_pressure_in_place(c, altitude_in, altitude_unit, temperature, temperature_unit, pressure) ==
    /\ Record(c, "equivalent_sea_level_pressure",
              [altitude |-> altitude_in, altitude_unit |-> altitude_unit,
               temperature |-> temperature, temperature_unit |-> temperature_unit,
               pressure |-> pressure],
              equivalent_sea_level_pressure(constants, altitude_in, altitude_unit,
                                            temperature, temperature_unit,
                                            pressure))
    /\ constants' = [constants EXCEPT !.TEMPERATURE_LAPSE_RATE =
                         PyMul(@, altitude_in)]
    /\ UNCHANGED inputs

Call_equivalent_sea_level_pressure(c, altitude_in, altitude_unit, temperature, temperature_unit, pressure) ==
    /\ Record(c, "equivalent_sea_level_pressure",
              [altitude |-> altitude_in, altitude_unit |-> altitude_unit,
               temperature |-> temperature, temperature_unit |-> temperature_unit,
               pressure |-> pressure],
              equivalent_sea_level_pressure(constants, altitude_in, altitude_unit,
                                            temperature, temperature_unit,
                                            pressure))
    /\ UNCHANGED <<constants, inputs>>

Call_dew_point(c, temperature, temperature_unit, relative_humidity) ==
    /\ Record(c, "dew_point",
              [temperature |-> temperature, temperature_unit |-> temperature_unit,
               relative_humidity |-> relative_humidity],
              dew_point(temperature, temperature_unit, relative_humidity))
    /\ UNCHANGED <<constants, inputs>>

Start(I) ==
    /\ constants = Constants
    /\ inputs \in I
    /\ calls = [c \in Callers |-> NoCall]

(***************************************************************************)
(* Comparisons used by the properties.                                     *)
(***************************************************************************)
AltitudeTolerance == F(5, -2)
DewTolerance == F(1, -3)
ConversionTolerance == F(1, -5)

IsFloat(v) == v.kind = "float"
Within(a, b, tol) == Le(FAbs(Sub(a, b)), tol)
Positive(v) == v.re.m > 0
Negative(v) == v.re.m < 0
IsZero(v) == v.re.m = 0

Did(c, fn) == calls[c].fn = fn

(***************************************************************************)
(* Altitude: callers pass the drawn readings with their unit tags, or      *)
(* convert them to Celsius and mbar themselves and pass those tags.        *)
(***************************************************************************)
AltPressures == {Fl(1000, 0), Fl(750, 0), Fl(0, 0), Fl(-5, 0)}
AltReferences == {Fl(1000, 0), Fl(0, 0), Fl(-1000, 0)}
AltTemperatures == {Fl(15, 0), Fl(59, 0)}

AltitudeInputs ==
    [pressure : AltPressures, reference_pressure : AltReferences,
     pressure_unit : PressureUnit, temperature : AltTemperatures,
     temperature_unit : TemperatureUnit, altitude_unit : AltitudeUnit]

AltitudeTagged(c) ==
    Call_altitude(c, inputs.pressure, inputs.reference_pressure,
                  inputs.pressure_unit, inputs.temperature,
                  inputs.temperature_unit, inputs.altitude_unit)

AltitudeByHand(c) ==
    Call_altitude(c, mmhg_to_mbar(inputs.pressure), inputs.reference_pressure,
                  MBAR, farenheit_to_celsius(inputs.temperature), CELSIUS,
                  inputs.altitude_unit)

InitAltitude == Start(AltitudeInputs)
NextAltitude == \E c \in Callers : AltitudeTagged(c) \/ AltitudeByHand(c)
SpecAltitude == InitAltitude /\ [][NextAltitude]_vars

\* C1: altitude called with pressure equal to a positive reference_pressure
\* returns 0, whatever the temperature and the three unit tags.
C1_ZeroAtReference ==
    \A c \in Callers :
        (/\ Did(c, "altitude")
         /\ calls[c].args.pressure = calls[c].args.reference_pressure
         /\ Positive(calls[c].args.reference_pressure))
        => calls[c].out = Ret(Zero)

TaggedMmhgFarenheit(c) ==
    /\ Did(c, "altitude")
    /\ calls[c].args.pressure_unit = MMHG
    /\ calls[c].args.temperature_unit = FARENHEIT

ByHandOf(d, c) ==
    /\ Did(d, "altitude")
    /\ calls[d].args.pressure_unit = MBAR
    /\ calls[d].args.temperature_unit = CELSIUS
    /\ calls[d].args.pressure = mmhg_to_mbar(calls[c].args.pressure)
    /\ calls[d].args.temperature = farenheit_to_celsius(calls[c].args.temperature)
    /\ calls[d].args.reference_pressure = calls[c].args.reference_pressure
    /\ calls[d].args.altitude_unit = calls[c].args.altitude_unit

\* C3: altitude(p, r, MMHG, t, FARENHEIT, u) equals
\* altitude(mmhg_to_mbar(p), r, MBAR, farenheit_to_celsius(t), CELSIUS, u).
C3_UnitTagIndependence ==
    \A c, d \in Callers :
        (TaggedMmhgFarenheit(c) /\ ByHandOf(d, c)) => calls[c].out = calls[d].out

C3_Witness ==
    \E c, d \in Callers :
        /\ TaggedMmhgFarenheit(c) /\ ByHandOf(d, c)
        /\ IsFloat(calls[c].out) /\ Positive(calls[c].out)
        /\ calls[c].args.altitude_unit = FEET

ConversionTemperatures ==
    {Fl(-40, 0), Fl(-10, 0), Fl(0, 0), Fl(20, 0), Fl(32, 0), Fl(68, 0),
     Fl(100, 0), Fl(212, 0)}

ConversionInputs == [temperature : ConversionTemperatures]

ToFarenheit(c) == Call_celsius_to_farenheit(c, inputs.temperature)

ToCelsius(c) == Call_farenheit_to_celsius(c, inputs.temperature)

BackToCelsius(c) ==
    \E d \in Callers :
        /\ Did(d, "celsius_to_farenheit")
        /\ Call_farenheit_to_celsius(c, calls[d].out)

InitConversions == Start(ConversionInputs)
NextConversions ==
    \E c \in Callers : ToFarenheit(c) \/ ToCelsius(c) \/ BackToCelsius(c)
SpecConversions == InitConversions /\ [][NextConversions]_vars

\* (t - 32) * 5/9
ExpectedCelsius(t) == PyMul(PySub(t, Fl(32, 0)), PyDiv(Fl(5, 0), Fl(9, 0)))

\* C2: farenheit_to_celsius(t) returns (t - 32) * 5/9, so it undoes
\* celsius_to_farenheit and maps 32 to 0 (compared up to ConversionTolerance).
C2_FarenheitToCelsius ==
    \A c \in Callers :
        Did(c, "farenheit_to_celsius") =>
            /\ IsFloat(calls[c].out)
            /\ Within(calls[c].out.re,
                      ExpectedCelsius(calls[c].args.temperature).re,
                      ConversionTolerance)
            /\ calls[c].args.temperature = celsius_to_farenheit(inputs.temperature)
               => Within(calls[c].out.re, inputs.temperature.re,
                         ConversionTolerance)

(***************************************************************************)
(* Round trip: the sea-level pressure of a station, then the altitude of   *)
(* the station from that reference.                                        *)
(***************************************************************************)
TripAltitudes == {Fl(0, 0), Fl(500, 0), Fl(1500, 0), Fl(3000, 0)}
TripTemperatures == {Fl(-20, 0), Fl(0, 0), Fl(15, 0), Fl(40, 0)}
TripPressures == {Fl(300, 0), Fl(700, 0), Fl(101325, -2)}

RoundTripInputs ==
    [altitude : TripAltitudes, temperature : TripTemperatures,
     pressure : TripPressures]

SeaLevel(c) ==
    Call_equivalent_sea_level_pressure(c, inputs.altitude, METERS,
                                       inputs.temperature, CELSIUS,
                                       inputs.pressure)

AltitudeBack(c) ==
    \E d \in Callers :
        /\ Did(d, "equivalent_sea_level_pressure")
        /\ Call_altitude(c, inputs.pressure, calls[d].out, MBAR,
                         inputs.temperature, CELSIUS, METERS)

InitRoundTrip == Start(RoundTripInputs)
NextRoundTrip == \E c \in Callers : SeaLevel(c) \/ AltitudeBack(c)
SpecRoundTrip == InitRoundTrip /\ [][NextRoundTrip]_vars

FromSeaLevel(c, d) ==
    /\ Did(d, "equivalent_sea_level_pressure")
    /\ Did(c, "altitude")
    /\ calls[c].args.reference_pressure = calls[d].out
    /\ calls[c].args.pressure = calls[d].args.pressure
    /\ calls[c].args.temperature = calls[d].args.temperature

\* C4: for T in -20..40 Celsius, a in 0..3000 m and positive P,
\* altitude(P, equivalent_sea_level_pressure(a, METERS, T, CELSIUS, P), MBAR,
\* T, CELSIUS, METERS) is a float within AltitudeTolerance of a.
C4_RoundTrip ==
    \A c, d \in Callers :
        FromSeaLevel(c, d) =>
            /\ IsFloat(calls[c].out)
            /\ Within(calls[c].out.re, calls[d].args.altitude.re,
                      AltitudeTolerance)

C4_Witness ==
    \E c, d \in Callers :
        /\ FromSeaLevel(c, d)
        /\ calls[d].args.altitude = Fl(3000, 0)
        /\ calls[d].args.temperature = Fl(-20, 0)
        /\ IsFloat(calls[c].out)
        /\ Lt(F(2999, 0), calls[c].out.re)

(***************************************************************************)
(* Dew point: callers pass the drawn temperature with its unit tag, or     *)
(* convert it with farenheit_to_celsius and pass the Celsius tag.          *)
(***************************************************************************)
DewTemperatures ==
    {Fl(-1000, 0), Fl(-300, 0), Fl(-24304, -2), Fl(-243, 0), Fl(-40, 0),
     Fl(20, 0), Fl(100, 0)}
DewHumidities ==
    {Fl(-5, 0), Fl(0, 0), Fl(1, -1), Fl(50, 0), Fl(999999, -4), Fl(100, 0)}

DewPointInputs ==
    [temperature : DewTemperatures, temperature_unit : TemperatureUnit,
     relative_humidity : DewHumidities]

DewPointTagged(c) ==
    Call_dew_point(c, inputs.temperature, inputs.temperature_unit,
                   inputs.relative_humidity)

DewPointByHand(c) ==
    Call_dew_point(c, farenheit_to_celsius(inputs.temperature), CELSIUS,
                   inputs.relative_humidity)

InitDewPoint == Start(DewPointInputs)
NextDewPoint == \E c \in Callers : DewPointTagged(c) \/ DewPointByHand(c)
SpecDewPoint == InitDewPoint /\ [][NextDewPoint]_vars

DewCelsius(c) ==
    Did(c, "dew_point") /\ calls[c].args.temperature_unit = CELSIUS

Unsaturated(c) ==
    /\ Positive(calls[c].args.relative_humidity)
    /\ Lt(calls[c].args.relative_humidity.re, F(100, 0))

Saturated(c) == calls[c].args.relative_humidity = Fl(100, 0)

\* -243.04 < T <= 100
AbovePole(c) ==
    /\ Lt(F(-24304, -2), calls[c].args.temperature.re)
    /\ Le(calls[c].args.temperature.re, F(100, 0))

AtPole(c) == calls[c].args.temperature = Fl(-24304, -2)

NotAbove(c) ==
    /\ IsFloat(calls[c].out)
    /\ Le(calls[c].out.re, Add(calls[c].args.temperature.re, DewTolerance))

\* C5 as stated: for every T, also at or below -243.04, and 0 < RH < 100,
\* dew_point(T, CELSIUS, RH) returns a value that is at most T.
C5_DewPointNeverAbove ==
    \A c \in Callers : (DewCelsius(c) /\ Unsaturated(c)) => NotAbove(c)

\* C5 amended: for -243.04 < T <= 100 and 0 < RH < 100,
\* dew_point(T, CELSIUS, RH) returns a float that is at most T, up to
\* rounding (DewTolerance).
C5_DewPointNotAboveOverPole ==
    \A c \in Callers :
        (DewCelsius(c) /\ Unsaturated(c) /\ AbovePole(c)) => NotAbove(c)

C5_Witness ==
    \E c \in Callers :
        /\ DewCelsius(c) /\ Unsaturated(c) /\ AbovePole(c)
        /\ calls[c].args.temperature = Fl(20, 0)
        /\ calls[c].args.relative_humidity = Fl(999999, -4)
        /\ IsFloat(calls[c].out)
        /\ Lt(calls[c].out.re, F(20, 0))
        /\ Lt(F(1999, -2), calls[c].out.re)

NearAmbient(c) ==
    /\ IsFloat(calls[c].out)
    /\ Within(calls[c].out.re, calls[c].args.temperature.re, DewTolerance)

DewByHandOf(d, c) ==
    /\ DewCelsius(d)
    /\ calls[d].args.temperature = farenheit_to_celsius(calls[c].args.temperature)
    /\ calls[d].args.relative_humidity = calls[c].args.relative_humidity

DewFarenheit(c) ==
    Did(c, "dew_point") /\ calls[c].args.temperature_unit = FARENHEIT

\* C6 as stated: for every T, dew_point(T, CELSIUS, 100) returns T up to
\* DewTolerance.
C6_SaturationEveryTemperature ==
    \A c \in Callers : (DewCelsius(c) /\ Saturated(c)) => NearAmbient(c)

\* C6 amended: for every T other than -243.04, dew_point(T, CELSIUS, 100)
\* returns T up to DewTolerance; and a call tagged FARENHEIT returns
\* celsius_to_farenheit of the Celsius dew point of the converted temperature.
C6_Saturation ==
    /\ \A c \in Callers :
           (DewCelsius(c) /\ Saturated(c) /\ ~AtPole(c)) => NearAmbient(c)
    /\ \A c, d \in Callers :
           (DewFarenheit(c) /\ DewByHandOf(d, c))
           => calls[c].out = celsius_to_farenheit(calls[d].out)

C6_Witness ==
    \E c, d \in Callers :
        /\ DewFarenheit(c) /\ DewByHandOf(d, c)
        /\ Saturated(d) /\ ~AtPole(d) /\ NearAmbient(d)
        /\ IsFloat(calls[c].out)

NonPositiveHumidity(c) ==
    Did(c, "dew_point") /\ ~Positive(calls[c].args.relative_humidity)

\* C7 as stated: dew_point with relative_humidity <= 0 never raises.
C7_NonPositiveHumidityNeverRaises ==
    \A c \in Callers : NonPositiveHumidity(c) => calls[c].out.kind # "raised"

\* C7 amended: dew_point with relative_humidity <= 0 always raises
\* ValueError and returns nothing.
C7_NonPositiveHumidityRaises ==
    \A c \in Callers :
        NonPositiveHumidity(c) => calls[c].out = Raise("ValueError")

C7_Witness ==
    \E c, d \in Callers :
        /\ NonPositiveHumidity(c) /\ DewCelsius(c) /\ AtPole(c)
        /\ calls[c].out = Raise("ValueError")
        /\ NonPositiveHumidity(d) /\ DewCelsius(d) /\ ~AtPole(d)
        /\ calls[d].out = Raise("ValueError")

(***************************************************************************)
(* Absolute humidity: the same temperature with any relative humidity.     *)
(***************************************************************************)
HumidityTemperatures == {Fl(-20, 0), Fl(0, 0), Fl(20, 0), Fl(68, 0)}
Humidities == {Fl(0, 0), Fl(10, 0), Fl(50, 0), Fl(90, 0)}

HumidityInputs ==
    [temperature : HumidityTemperatures, temperature_unit : TemperatureUnit]

AnyHumidity(c) ==
    \E relative_humidity \in Humidities :
        Call_absolute_humidity(c, inputs.temperature, inputs.temperature_unit,
                               relative_humidity)

InitHumidity == Start(HumidityInputs)
NextHumidity == \E c \in Callers : AnyHumidity(c)
SpecHumidity == InitHumidity /\ [][NextHumidity]_vars

SameAir(c, d) ==
    /\ Did(c, "absolute_humidity") /\ Did(d, "absolute_humidity")
    /\ calls[c].args.temperature = calls[d].args.temperature
    /\ calls[c].args.temperature_unit = calls[d].args.temperature_unit

\* C10: absolute_humidity returns the same value for the same temperature
\* and temperature_unit, whatever relative_humidity is passed.
C10_HumidityIgnored ==
    \A c, d \in Callers : SameAir(c, d) => calls[c].out = calls[d].out

C10_Witness ==
    \E c, d \in Callers :
        /\ SameAir(c, d)
        /\ calls[c].args.relative_humidity = Fl(10, 0)
        /\ calls[d].args.relative_humidity = Fl(90, 0)
        /\ IsFloat(calls[c].out) /\ Positive(calls[c].out)

(***************************************************************************)
(* Concurrent callers: every function, in any order, from every caller.    *)
(***************************************************************************)
ConcurrentInputs ==
    {[pressure |-> Fl(900, 0), reference_pressure |-> Fl(101325, -2),
      pressure_unit |-> MBAR, temperature |-> Fl(20, 0),
      temperature_unit |-> CELSIUS, altitude |-> Fl(500, 0),
      altitude_unit |-> METERS, relative_humidity |-> Fl(50, 0)],
     [pressure |-> Fl(0, 0), reference_pressure |-> Fl(760, 0),
      pressure_unit |-> MMHG, temperature |-> Fl(68, 0),
      temperature_unit |-> FARENHEIT, altitude |-> Fl(1640, 0),
      altitude_unit |-> FEET, relative_humidity |-> Fl(0, 0)]}

AnyCall(c) ==
    \/ Call_celsius_to_farenheit(c, inputs.temperature)
    \/ Call_celsius_to_kelvin(c, inputs.temperature)
    \/ Call_farenheit_to_celsius(c, inputs.temperature)
    \/ Call_feet_to_meters(c, inputs.altitude)
    \/ Call_mmhg_to_mbar(c, inputs.pressure)
    \/ Call_meters_to_feet(c, inputs.altitude)
    \/ Call_altitude(c, inputs.pressure, inputs.reference_pressure,
                     inputs.pressure_unit, inputs.temperature,
                     inputs.temperature_unit, inputs.altitude_unit)
    \/ Call_absolute_humidity(c, inputs.temperature, inputs.temperature_unit,
                              inputs.relative_humidity)
    \/ Call_equivalent_sea_level_pressure(c, inputs.altitude,
                                          inputs.altitude_unit,
                                          inputs.temperature,
                                          inputs.temperature_unit,
                                          inputs.pressure)
    \/ Call_dew_point(c, inputs.temperature, inputs.temperature_unit,
                      inputs.relative_humidity)

InitConcurrent == Start(ConcurrentInputs)
NextConcurrent == \E c \in Callers : AnyCall(c)
SpecConcurrent == InitConcurrent /\ [][NextConcurrent]_vars

\* the outcome of the call when it is the only one ever made
Alone(call) ==
    CASE call.fn = "celsius_to_farenheit" ->
             celsius_to_farenheit(call.args.temperature)
      [] call.fn = "celsius_to_kelvin" -> celsius_to_kelvin(call.args.temperature)
      [] call.fn = "farenheit_to_celsius" ->
             farenheit_to_celsius(call.args.temperature)
      [] call.fn = "feet_to_meters" -> feet_to_meters(call.args.altitude)
      [] call.fn = "mmhg_to_mbar" -> mmhg_to_mbar(call.args.pressure)
      [] call.fn = "meters_to_feet" -> meters_to_feet(call.args.altitude)
      [] call.fn = "altitude" ->
             altitude(Constants, call.args.pressure,
                      call.args.reference_pressure, call.args.pressure_unit,
                      call.args.temperature, call.args.temperature_unit,
                      call.args.altitude_unit)
      [] call.fn = "absolute_humidity" ->
             absolute_humidity(Constants, call.args.temperature,
                               call.args.temperature_unit,
                               call.args.relative_humidity)
      [] call.fn = "equivalent_sea_level_pressure" ->
             equivalent_sea_level_pressure(Constants, call.args.altitude,
                                           call.args.altitude_unit,
                                           call.args.temperature,
                                           call.args.temperature_unit,
                                           call.args.pressure)
      [] call.fn = "dew_point" ->
             dew_point(call.args.temperature, call.args.temperature_unit,
                       call.args.relative_humidity)
      [] OTHER -> Ret(Zero)

\* C9: whatever calls were made before or in between by any caller, every
\* call returns what it returns when made alone, and Constants keeps its
\* values.
C9_Independence ==
    /\ constants = Constants
    /\ \A c \in Callers : calls[c].out = Alone(calls[c])

C9_Witness ==
    \E c, d \in Callers :
        /\ Did(c, "equivalent_sea_level_pressure") /\ IsFloat(calls[c].out)
        /\ Did(d, "altitude") /\ Raised(calls[d].out)

====
